---- MODULE Spec2Model ----
(***************************************************************************)
(* riskScan.go: a directory walk that scores every file with a heuristic   *)
(* risk, keeps the riskiest maxResults files of each group of files seen   *)
(* between two directory entries, and writes the flattened list as JSON.   *)
(*                                                                         *)
(* Risks are float64 in the source; here they are integers in hundredths   *)
(* (0.25 is 25): the sums are the decimal sums of the rules, and the       *)
(* rounding of float64 addition is not modelled.                           *)
(* Times are integers in hours.  Slice indices are 1-based (Go's index i   *)
(* is i+1 here).                                                           *)
(***************************************************************************)
EXTENDS Integers, Sequences, FiniteSets, TLC

VARIABLES
    osArgs,          \* os.Args[1:]
    args,            \* the map readCommandLineArgs returned
    tree,            \* the file system under rootDir: a sequence of nodes
    now,             \* the reading time.Now() gives
    pc,              \* where main is
    todo,            \* filepath.Walk: the entries still to be delivered
    currentResults,  \* main's currentResults
    finalResult,     \* main's finalResult (a DirResult)
    outFile,         \* what was handed to the encoder of the output file
    visited,         \* history: the entries walkFn was called for, with the clock
    prev             \* history: the previous run of the program, if any

vars == <<osArgs, args, tree, now, pc, todo, currentResults, finalResult,
          outFile, visited, prev>>

(***************************************************************************)
(* Part one: constants and types                                           *)
(***************************************************************************)
hoursInWeek == 24 * 7
maxRisk == 100
minRisk == 0
dirArg == "--dir"
outArg == "--out"
maxResults == 10

\* The zero value of FileResult (Go zero-initialises arrays and structs).
ZeroFileResult == [Path |-> <<>>, Risk |-> 0]

\* The zero value of DirResult.
ZeroDirResult == [Dir |-> <<>>, Results |-> <<>>]

(***************************************************************************)
(* The file system.  tree[n] is a node; tree[1] is the root the walk is    *)
(* started on.  parent is 0 for the root.  A directory's entries are the   *)
(* nodes whose parent it is, and their lexical order (the order            *)
(* filepath.Walk sorts names into) is the order of their indices.          *)
(*   isDir     what info.IsDir() answers                                   *)
(*   size      info.Size()                                                 *)
(*   ext       filepath.Ext of the name: the suffix from the last dot,     *)
(*             "" when the name has none                                   *)
(*   modTime   info.ModTime()                                              *)
(*   nameLen   the length of the name (of rootDir for the root)            *)
(*   lstatErr  os.Lstat fails on the entry (deleted meanwhile, no search   *)
(*             permission): Walk calls walkFn with a nil info              *)
(*   readErr   a directory whose names cannot be read                      *)
(***************************************************************************)
Root == 1

Nodes == DOMAIN tree

\* The names of directory n, sorted (readDirNames sorts them).
RECURSIVE ChildrenFrom(_, _)
ChildrenFrom(n, i) ==
    IF i > Len(tree) THEN <<>>
    ELSE IF tree[i].parent = n THEN <<i>> \o ChildrenFrom(n, i + 1)
    ELSE ChildrenFrom(n, i + 1)

Children(n) == ChildrenFrom(n, 1)

\* The path string Walk passes for node n, as its sequence of names:
\* filepath.Join(path, name) down from the root.
RECURSIVE PathOf(_)
PathOf(n) ==
    IF tree[n].parent = 0 THEN <<n>> ELSE Append(PathOf(tree[n].parent), n)

\* len(path) of that string: names joined by one separator each.
RECURSIVE PathLen(_)
PathLen(n) ==
    IF tree[n].parent = 0 THEN tree[n].nameLen
    ELSE PathLen(tree[n].parent) + 1 + tree[n].nameLen

\* filepath.Abs: the working directory joined in front of a relative path.
Cwd == <<0>>
Abs(path) == Cwd \o path

(***************************************************************************)
(* Part two: risk assessment rules                                         *)
(***************************************************************************)
initExtensionRiskMap ==
    [e \in {".zip", ".tar", ".png", ".jpg", ".jpeg", ".csv", ".json"} |->
        CASE e \in {".zip", ".tar"} -> 15
          [] e \in {".png", ".jpg", ".jpeg"} -> -20
          [] e \in {".csv", ".json"} -> 75]

extensionRiskMap == initExtensionRiskMap

assessExtension(n) ==
    LET extension == tree[n].ext
    IN  IF extension \in DOMAIN extensionRiskMap
        THEN extensionRiskMap[extension]
        ELSE 0

\* checkRiskRange without its lower bound.
checkRiskRange_NoFloor(risk) ==
    IF risk > maxRisk THEN maxRisk ELSE risk

checkRiskRange(risk) ==
    IF risk > maxRisk THEN maxRisk
    ELSE IF risk < minRisk THEN minRisk
    ELSE risk

\* The recency test against the clock itself instead of a week before it.
ModifiedLastWeek_SinceNow(n, clock) == tree[n].modTime > clock

\* info.ModTime().After(time.Now().Add(time.Hour * -hoursInWeek))
ModifiedLastWeek(n, clock) == tree[n].modTime > clock - hoursInWeek

assessFileRisk(n, clock) ==
    LET r1 == IF tree[n].size > 1000000 THEN 25 ELSE 0
        r2 == r1 + assessExtension(n)
        r3 == IF ModifiedLastWeek(n, clock) THEN r2 + 20 ELSE r2
    IN  r3

\* assessDirNameLength with the short bucket reaching 5.
assessDirNameLength_UpTo5(n) ==
    LET size == PathLen(n)
    IN  IF size <= 5 THEN 25
        ELSE IF size > 15 THEN -10
        ELSE 50

assessDirNameLength(n) ==
    LET size == PathLen(n)
    IN  IF size < 5 THEN 25
        ELSE IF size > 15 THEN -10
        ELSE 50

\* assessDirRisk with the size filter at 100 bytes.
assessDirRisk_Filter100(n, err, clock) ==
    IF ~err /\ tree[n].size > 100
    THEN LET fullRisk == assessFileRisk(n, clock) + assessDirNameLength(n)
         IN  <<[Path |-> Abs(PathOf(n)), Risk |-> checkRiskRange(fullRisk)]>>
    ELSE <<>>

\* err is TRUE for a non-nil error.
assessDirRisk(n, err, clock) ==
    IF ~err /\ tree[n].size > 1000
    THEN LET fullRisk == assessFileRisk(n, clock) + assessDirNameLength(n)
         IN  <<[Path |-> Abs(PathOf(n)), Risk |-> checkRiskRange(fullRisk)]>>
    ELSE <<>>

(***************************************************************************)
(* Part three: util functions                                              *)
(***************************************************************************)
\* The for loop of readCommandLineArgs from index i on, result being the map
\* built so far.  The second test reads args[i] after the first may have
\* advanced i.
RECURSIVE ReadArgsLoop(_, _, _)
ReadArgsLoop(a, i, result) ==
    IF i > Len(a) THEN result
    ELSE
        LET hitDir == a[i] = dirArg /\ i + 1 <= Len(a)
            res1 == IF hitDir THEN (dirArg :> a[i + 1]) @@ result ELSE result
            i1 == IF hitDir THEN i + 1 ELSE i
            hitOut == a[i1] = outArg /\ i1 + 1 <= Len(a)
            res2 == IF hitOut THEN (outArg :> a[i1 + 1]) @@ res1 ELSE res1
            i2 == IF hitOut THEN i1 + 1 ELSE i1
        IN  ReadArgsLoop(a, i2 + 1, res2)

readCommandLineArgs(a) == ReadArgsLoop(a, 1, <<>>)

\* The range loop of findSmallestRisk taking the last of the smallest risks.
RECURSIVE FindSmallestLoop_LastMin(_, _, _, _)
FindSmallestLoop_LastMin(results, i, smallestRisk, smallestRiskIndex) ==
    IF i > Len(results) THEN <<smallestRisk, smallestRiskIndex>>
    ELSE IF results[i].Risk <= smallestRisk
         THEN FindSmallestLoop_LastMin(results, i + 1, results[i].Risk, i)
         ELSE FindSmallestLoop_LastMin(results, i + 1, smallestRisk,
                                       smallestRiskIndex)

\* The range loop of findSmallestRisk from index i on.
RECURSIVE FindSmallestLoop(_, _, _, _)
FindSmallestLoop(results, i, smallestRisk, smallestRiskIndex) ==
    IF i > Len(results) THEN <<smallestRisk, smallestRiskIndex>>
    ELSE IF results[i].Risk < smallestRisk
         THEN FindSmallestLoop(results, i + 1, results[i].Risk, i)
         ELSE FindSmallestLoop(results, i + 1, smallestRisk, smallestRiskIndex)

\* findSmallestRisk starting its search from minRisk.
findSmallestRisk_FromMinRisk(results) ==
    FindSmallestLoop(results, 1, minRisk, 1)

findSmallestRisk(results) == FindSmallestLoop(results, 1, maxRisk, 1)

\* The replacement test with <= for <.
Replaces_OrEqual(smallestRisk, risk) == smallestRisk <= risk

\* Whether the result at hand takes the place of the smallest one.
Replaces(smallestRisk, risk) == smallestRisk < risk

\* The range loop of trimDownResults from index i on.
RECURSIVE TrimLoop(_, _, _)
TrimLoop(results, i, trimmedResults) ==
    IF i > Len(results) THEN trimmedResults
    ELSE IF i <= maxResults
         THEN TrimLoop(results, i + 1, [trimmedResults EXCEPT ![i] = results[i]])
         ELSE LET s == findSmallestRisk(trimmedResults)
              IN  IF Replaces(s[1], results[i].Risk)
                  THEN TrimLoop(results, i + 1,
                                [trimmedResults EXCEPT ![s[2]] = results[i]])
                  ELSE TrimLoop(results, i + 1, trimmedResults)

\* trimmedResults := [maxResults]FileResult{}
ZeroResults == [slot \in 1..maxResults |-> ZeroFileResult]

\* trimDownResults without the early return for short inputs.
trimDownResults_AlwaysLoop(results) == TrimLoop(results, 1, ZeroResults)

trimDownResults(results) ==
    IF Len(results) <= maxResults THEN results
    ELSE TrimLoop(results, 1, ZeroResults)

(***************************************************************************)
(* Part four: main                                                         *)
(***************************************************************************)
\* main leaving early only when both arguments are missing.
MainStart_BothMissing ==
    /\ pc = "start"
    /\ LET a == readCommandLineArgs(osArgs)
       IN  /\ args' = a
           /\ IF dirArg \notin DOMAIN a /\ outArg \notin DOMAIN a
              THEN /\ pc' = "exit"
                   /\ UNCHANGED <<todo, currentResults, finalResult>>
              ELSE /\ pc' = "walk"
                   /\ finalResult' = [Dir |-> Abs(PathOf(Root)), Results |-> <<>>]
                   /\ currentResults' = <<>>
                   /\ todo' = <<Root>>
    /\ UNCHANGED <<osArgs, tree, now, outFile, visited, prev>>

\* main up to the call of filepath.Walk: the arguments are read and checked,
\* finalResult and currentResults are declared, and Walk is about to stat
\* the root.
MainStart ==
    /\ pc = "start"
    /\ LET a == readCommandLineArgs(osArgs)
       IN  /\ args' = a
           /\ IF dirArg \notin DOMAIN a \/ outArg \notin DOMAIN a
              THEN /\ pc' = "exit"
                   /\ UNCHANGED <<todo, currentResults, finalResult>>
              ELSE /\ pc' = "walk"
                   /\ finalResult' = [Dir |-> Abs(PathOf(Root)), Results |-> <<>>]
                   /\ currentResults' = <<>>
                   /\ todo' = <<Root>>
    /\ UNCHANGED <<osArgs, tree, now, outFile, visited, prev>>

\* The save putting the trimmed results in front of finalResult.Results.
SaveResults_Prepend(results, current) == trimDownResults(current) \o results

\* What the directory branch of walkFn makes of finalResult.Results.
SaveResults(results, current) == results \o trimDownResults(current)

\* The file branch putting the new result in front of currentResults.
AddResults_Prepend(current, dirResult) == dirResult \o current

\* What the file branch of walkFn makes of currentResults.
AddResults(current, dirResult) == current \o dirResult

\* walkFn with a directory branch that leaves currentResults as it is.
WalkFn_NoReset ==
    /\ pc = "walk"
    /\ todo /= <<>>
    /\ LET n == Head(todo)
       IN  /\ visited' = Append(visited, [node |-> n, at |-> now])
           /\ IF tree[n].lstatErr
              THEN /\ pc' = "panic"
                   /\ UNCHANGED <<todo, currentResults, finalResult>>
              ELSE IF tree[n].isDir
              THEN /\ finalResult' =
                        [finalResult EXCEPT
                            !.Results = SaveResults(@, currentResults)]
                   /\ currentResults' = currentResults
                   /\ todo' = (IF tree[n].readErr THEN <<>> ELSE Children(n))
                                \o Tail(todo)
                   /\ pc' = pc
              ELSE /\ currentResults' =
                        AddResults(currentResults, assessDirRisk(n, FALSE, now))
                   /\ todo' = Tail(todo)
                   /\ UNCHANGED <<finalResult, pc>>
    /\ UNCHANGED <<osArgs, args, tree, now, outFile, prev>>

\* One call of the function handed to filepath.Walk, for the next entry n
\* of the walk.  Walk passes a nil info when Lstat failed, and info.IsDir()
\* on it panics; it passes the error of readDirNames along with a
\* directory's info, and then does not descend.  walkFn returns nil, so
\* Walk goes on with what is left.
WalkFn ==
    /\ pc = "walk"
    /\ todo /= <<>>
    /\ LET n == Head(todo)
       IN  /\ visited' = Append(visited, [node |-> n, at |-> now])
           /\ IF tree[n].lstatErr
              THEN /\ pc' = "panic"
                   /\ UNCHANGED <<todo, currentResults, finalResult>>
              ELSE IF tree[n].isDir
              THEN /\ finalResult' =
                        [finalResult EXCEPT
                            !.Results = SaveResults(@, currentResults)]
                   /\ currentResults' = <<>>
                   /\ todo' = (IF tree[n].readErr THEN <<>> ELSE Children(n))
                                \o Tail(todo)
                   /\ pc' = pc
              ELSE /\ currentResults' =
                        AddResults(currentResults, assessDirRisk(n, FALSE, now))
                   /\ todo' = Tail(todo)
                   /\ UNCHANGED <<finalResult, pc>>
    /\ UNCHANGED <<osArgs, args, tree, now, outFile, prev>>

\* main without the save after the walk.
FinalSave_Skipped ==
    /\ pc = "walk"
    /\ todo = <<>>
    /\ pc' = "open"
    /\ UNCHANGED <<osArgs, args, tree, now, todo, currentResults, finalResult,
                   outFile, visited, prev>>

\* The final save after the walk has ended.
FinalSave ==
    /\ pc = "walk"
    /\ todo = <<>>
    /\ finalResult' =
            [finalResult EXCEPT !.Results = SaveResults(@, currentResults)]
    /\ pc' = "open"
    /\ UNCHANGED <<osArgs, args, tree, now, todo, currentResults, outFile,
                   visited, prev>>

\* The output file is opened, and finalResult is encoded into it unless the
\* open failed.  outFile records the document handed to the encoder; the
\* file is opened with os.O_CREATE alone and the error of Encode is dropped,
\* so whether the bytes reach the disk is not part of the state.
WriteOut ==
    /\ pc = "open"
    /\ \E fileOpenErr \in BOOLEAN :
          IF fileOpenErr
          THEN pc' = "openError" /\ outFile' = outFile
          ELSE pc' = "done" /\ outFile' = <<finalResult>>
    /\ UNCHANGED <<osArgs, args, tree, now, todo, currentResults, finalResult,
                   visited, prev>>

\* The clock advances.
MaxTicks == 1

Epoch == 2 * hoursInWeek

Tick ==
    /\ now < Epoch + MaxTicks
    /\ now' = now + 1
    /\ UNCHANGED <<osArgs, args, tree, pc, todo, currentResults, finalResult,
                   outFile, visited, prev>>

\* The program is run once more over the same tree: a new process, whose
\* variables start from their zero values.
Rerun ==
    /\ pc = "done"
    /\ prev = <<>>
    /\ prev' = <<[Results |-> finalResult.Results, visited |-> visited]>>
    /\ pc' = "start"
    /\ args' = <<>>
    /\ todo' = <<>>
    /\ currentResults' = <<>>
    /\ finalResult' = ZeroDirResult
    /\ visited' = <<>>
    /\ UNCHANGED <<osArgs, tree, now, outFile>>

(***************************************************************************)
(* The trees the walk is run on                                            *)
(***************************************************************************)
DirNode(parent, nameLen, readErr) ==
    [parent |-> parent, isDir |-> TRUE, size |-> 4096, ext |-> "",
     modTime |-> Epoch, nameLen |-> nameLen, lstatErr |-> FALSE,
     readErr |-> readErr]

FileNode(parent, size, ext, modTime, nameLen) ==
    [parent |-> parent, isDir |-> FALSE, size |-> size, ext |-> ext,
     modTime |-> modTime, nameLen |-> nameLen, lstatErr |-> FALSE,
     readErr |-> FALSE]

\* The kinds of file of the large trees, with the risk each gets in a
\* directory whose path is 4 or 6 long:
\*   tiny  under the size filter (it would score 100)
\*   low   30      mid  50      high  90      top  100
\*   gone  Lstat fails on it
FileKinds == {"tiny", "low", "mid", "high"}

KindNode(parent, k) ==
    CASE k = "tiny" -> FileNode(parent, 500, ".csv", Epoch - 1, 5)
      [] k = "low"  -> FileNode(parent, 2000, ".png", Epoch - 1000, 5)
      [] k = "mid"  -> FileNode(parent, 2000, ".txt", Epoch - 1000, 5)
      [] k = "high" -> FileNode(parent, 2000000, ".zip", Epoch - 1000, 5)
      [] k = "top"  -> FileNode(parent, 2000, ".csv", Epoch - 1000, 5)
      [] k = "gone" -> [FileNode(parent, 0, "", Epoch, 5) EXCEPT !.lstatErr = TRUE]

Rep(n, k) == [j \in 1..n |-> k]

SubKinds == {"none", "empty", "file", "unreadable"}

\* A root directory holding the files `before`, then (by name) a
\* subdirectory, then the files `after`; the subdirectory is absent, empty,
\* holds one file, or holds one file and cannot be read.
MkTree(before, sub, after) ==
    LET subIdx == Len(before) + 2
    IN  <<DirNode(0, 4, FALSE)>>
        \o [i \in 1..Len(before) |-> KindNode(Root, before[i])]
        \o (IF sub = "none" THEN <<>>
            ELSE <<DirNode(Root, 1, sub = "unreadable")>>)
        \o [i \in 1..Len(after) |-> KindNode(Root, after[i])]
        \o (IF sub \in {"file", "unreadable"}
            THEN <<KindNode(subIdx, "high")>> ELSE <<>>)

MaxBefore == 1
MaxAfter == 11

BeforeSeqs == {Rep(n, k) : n \in 0..MaxBefore, k \in FileKinds}

\* Up to MaxAfter files of one kind, but for one of them at any place.
AfterSeqs ==
    {<<>>} \cup
    {[j \in 1..n |-> IF j = p THEN kl ELSE ka] :
        n \in 1..MaxAfter, p \in 1..MaxAfter,
        ka \in FileKinds, kl \in FileKinds \cup {"gone"}}

\* A root that cannot be read, a root that is not there, a root that is a
\* plain file.
RootCases ==
    { <<DirNode(0, 4, TRUE), KindNode(Root, "high")>>,
      <<[DirNode(0, 4, FALSE) EXCEPT !.lstatErr = TRUE]>>,
      <<KindNode(0, "high")>> }

\* A root directory holding files and, after them by name, an empty
\* subdirectory.
TailTrees ==
    {Append(MkTree(<<>>, "none", a), DirNode(Root, 1, FALSE)) : a \in AfterSeqs}

WalkTrees ==
    {MkTree(b, s, a) : b \in BeforeSeqs, s \in SubKinds, a \in AfterSeqs}
    \cup TailTrees \cup RootCases

\* One file in a root directory named ".", over every combination of the
\* attributes the rules read.
ScanSizes == {1000, 1001, 1000000, 1000001, 2000000}
ScanExts == {"", ".txt", ".CSV", ".zip", ".tar", ".png", ".jpg", ".jpeg",
             ".csv", ".json"}
ScanModTimes == {Epoch - hoursInWeek, Epoch - hoursInWeek + 1, Epoch - 1,
                 Epoch + 1}
ScanNameLens == {2, 3, 13, 14, 18}

\* A name is at least as long as its extension.
ScanNames == {x \in ScanExts \X ScanNameLens : x[2] >= Len(x[1])}

ScanTrees ==
    {<<DirNode(0, 1, FALSE), FileNode(Root, s, x[1], m, x[2])>> :
        s \in ScanSizes, x \in ScanNames, m \in ScanModTimes}

ArgLists ==
    { <<dirArg, "root", outArg, "out.json">>,
      <<dirArg, "root">> }

InitWith(trees, argLists) ==
    /\ osArgs \in argLists
    /\ args = <<>>
    /\ tree \in trees
    /\ now = Epoch
    /\ pc = "start"
    /\ todo = <<>>
    /\ currentResults = <<>>
    /\ finalResult = ZeroDirResult
    /\ outFile = <<>>
    /\ visited = <<>>
    /\ prev = <<>>

\* One run over a large tree.
Init == InitWith(WalkTrees, ArgLists)

Next == MainStart \/ WalkFn \/ FinalSave \/ WriteOut

Spec == Init /\ [][Next]_vars

\* One run for every argument list of up to MaxArgs tokens, over a few
\* small trees.
MaxArgs == 4

ArgTokens == {dirArg, outArg, "root", "out.json"}

AllArgLists == UNION {[1..n -> ArgTokens] : n \in 0..MaxArgs}

ArgTrees ==
    {MkTree(<<"mid">>, s, <<"high">>) : s \in SubKinds} \cup RootCases

InitArgs == InitWith(ArgTrees, AllArgLists)

SpecArgs == InitArgs /\ [][Next]_vars

\* The save of a pending list, for every list of up to MaxTrimLen results
\* over three risks, the highest of them held by at most MaxTops results:
\* the state is the one at the end of the walk of a root directory that
\* holds the files and nothing else.
MaxTrimLen == 11
MaxTops == 2

TrimKinds == {"low", "high", "top"}

TrimSeqs ==
    {a \in UNION {[1..n -> TrimKinds] : n \in 0..MaxTrimLen} :
        Cardinality({i \in DOMAIN a : a[i] = "top"}) <= MaxTops}

TrimTrees == {MkTree(<<>>, "none", a) : a \in TrimSeqs}

\* currentResults after the file entries from node n on have been added.
RECURSIVE AddFrom(_, _)
AddFrom(n, current) ==
    IF n > Len(tree) THEN current
    ELSE AddFrom(n + 1, AddResults(current, assessDirRisk(n, FALSE, now)))

InitTrim ==
    /\ osArgs = <<dirArg, "root", outArg, "out.json">>
    /\ args = readCommandLineArgs(osArgs)
    /\ tree \in TrimTrees
    /\ now = Epoch
    /\ pc = "walk"
    /\ todo = <<>>
    /\ currentResults = AddFrom(Root + 1, <<>>)
    /\ finalResult = [Dir |-> Abs(PathOf(Root)), Results |-> <<>>]
    /\ outFile = <<>>
    /\ visited = [i \in 1..Len(tree) |-> [node |-> i, at |-> now]]
    /\ prev = <<>>

NextTrim == FinalSave

SpecTrim == InitTrim /\ [][NextTrim]_vars

\* Two runs over a one-file tree while the clock advances.
InitScan == InitWith(ScanTrees, ArgLists)

NextScan == MainStart \/ WalkFn \/ FinalSave \/ WriteOut \/ Tick \/ Rerun

SpecScan == InitScan /\ [][NextScan]_vars

(***************************************************************************)
(* Vocabulary of the properties                                            *)
(***************************************************************************)
Range(s) == {s[i] : i \in DOMAIN s}

\* Every FileResult the run holds.
Held == Range(currentResults) \cup Range(finalResult.Results)

\* The entry a FileResult was made for.
NodeOf(r) == CHOOSE n \in Nodes : Abs(PathOf(n)) = r.Path

\* The directory part of a path.
DirOf(path) == SubSeq(path, 1, Len(path) - 1)

Dirs == {n \in Nodes : tree[n].isDir /\ ~tree[n].lstatErr}

\* A file that passes the size filter.
Qualifies(n) ==
    ~tree[n].isDir /\ ~tree[n].lstatErr /\ tree[n].size > 1000

QualifyingIn(d) == {n \in Nodes : tree[n].parent = d /\ Qualifies(n)}

\* The run is over and its output is written.
Completed == pc = "done"

Output == outFile[1].Results

\* The positions of the output that hold a file of directory d.
OutputIn(d) ==
    {i \in DOMAIN Output : DirOf(Output[i].Path) = Abs(PathOf(d))}

InOutput(n) == \E i \in DOMAIN Output : Output[i].Path = Abs(PathOf(n))

Visited(n) == \E i \in DOMAIN visited : visited[i].node = n

\* C1: after a completed run the output holds at most maxResults files of
\* each directory, and exactly maxResults of a directory that holds more
\* than maxResults qualifying files.
C1_TopTenPerDirectory ==
    Completed =>
        \A d \in Dirs :
            /\ Cardinality(OutputIn(d)) <= maxResults
            /\ Cardinality(QualifyingIn(d)) > maxResults
                   => Cardinality(OutputIn(d)) = maxResults

\* The risk the rules give file n at the clock's present reading.
RiskNow(n) == assessDirRisk(n, FALSE, now)[1].Risk

\* C2: after a completed run every file of a directory that is in the
\* output has a risk at least that of every qualifying file of the same
\* directory that is not in the output.
C2_KeptOutrankDropped ==
    Completed =>
        \A d \in Dirs :
            \A i \in OutputIn(d) :
                \A q \in QualifyingIn(d) :
                    ~InOutput(q) => Output[i].Risk >= RiskNow(q)

\* C3: every FileResult the run holds, pending or final, has a risk between
\* 0.0 and 1.0.
C3_RiskInRange ==
    \A r \in Held : 0 <= r.Risk /\ r.Risk <= 100

\* A file whose rules add up to less than 0.0 (an old .png under a long
\* path) is in the final results, at risk 0.0.
C3_Witness ==
    /\ pc = "done"
    /\ \E r \in Range(finalResult.Results) :
          /\ r.Risk = 0
          /\ tree[NodeOf(r)].ext = ".png"
          /\ tree[NodeOf(r)].size <= 1000000
          /\ PathLen(NodeOf(r)) > 15

\* The entry walkFn is about to be called for is a file under the size filter.
SmallFileNext ==
    /\ pc = "walk"
    /\ todo /= <<>>
    /\ ~tree[Head(todo)].isDir
    /\ ~tree[Head(todo)].lstatErr
    /\ tree[Head(todo)].size <= 1000

C4_Step ==
    /\ \A r \in Held' : tree[NodeOf(r)].size > 1000
    /\ outFile' /= <<>> =>
          \A r \in Range(outFile'[1].Results) : tree[NodeOf(r)].size > 1000
    /\ SmallFileNext =>
          /\ currentResults' = currentResults
          /\ finalResult' = finalResult

\* C4: a file of 1000 bytes or less never becomes a FileResult (it is in
\* neither the pending list, the final results nor the output), and the
\* step that meets it leaves the pending list and the final results as they
\* were, so it displaces nothing.
C4_SmallFilesInvisible == [][C4_Step]_vars

\* A file under the size filter came last in a group of more than
\* maxResults entries, and the run completed.
C4_Witness ==
    /\ Completed
    /\ Len(Output) = maxResults
    /\ Len(visited) > maxResults + 1
    /\ LET n == visited[Len(visited)].node
       IN  ~tree[n].isDir /\ tree[n].size <= 1000

\* C5: an entry whose metadata could not be read (walkFn gets a nil info
\* and an error) yields no FileResult and does not end the run: the walk
\* goes on, to the final save and the output.
C5_EntryErrorNotFatal ==
    \A i \in DOMAIN visited :
        tree[visited[i].node].lstatErr =>
            /\ pc \in {"walk", "open", "done", "openError"}
            /\ \A r \in Held : r.Path /= Abs(PathOf(visited[i].node))

\* The position in the walk of the last directory entry (0 when none).
LastDirPos ==
    LET ds == {i \in DOMAIN visited : tree[visited[i].node].isDir}
    IN  IF ds = {} THEN 0 ELSE CHOOSE i \in ds : \A j \in ds : j <= i

\* The qualifying files met after the last directory entry.
LastGroup ==
    {visited[i].node : i \in {j \in DOMAIN visited :
                                j > LastDirPos /\ Qualifies(visited[j].node)}}

InFinal(n) ==
    \E i \in DOMAIN finalResult.Results :
        finalResult.Results[i].Path = Abs(PathOf(n))

\* C6: once the walk has ended the pending list is saved a last time: the
\* qualifying files met after the last directory entry are all in the
\* final results, or maxResults of them are when there are more; and what
\* is written is finalResult as it is after that save.
C6_FinalDrain ==
    /\ pc \in {"open", "done", "openError"} =>
          /\ Cardinality(LastGroup) <= maxResults =>
                \A n \in LastGroup : InFinal(n)
          /\ Cardinality(LastGroup) > maxResults =>
                Cardinality({n \in LastGroup : InFinal(n)}) = maxResults
    /\ pc \in {"start", "walk", "open"} /\ prev = <<>> => outFile = <<>>
    /\ pc = "done" => outFile = <<finalResult>>

\* A completed run whose last group was trimmed.
C6_Witness ==
    /\ Completed
    /\ Cardinality(LastGroup) > maxResults
    /\ LastDirPos > 1

\* The smallest risk of a buffer, and the lowest index that holds it.
MinRiskOf(b) ==
    CHOOSE m \in {b[i].Risk : i \in DOMAIN b} :
        \A i \in DOMAIN b : m <= b[i].Risk

FirstMinOf(b) ==
    CHOOSE j \in DOMAIN b :
        /\ b[j].Risk = MinRiskOf(b)
        /\ \A k \in 1..(j - 1) : b[k].Risk /= MinRiskOf(b)

\* The pending list is maxResults results of risk 0.5 and then one of 0.9.
TenHalvesThenNine ==
    /\ Len(currentResults) = maxResults + 1
    /\ \A i \in 1..maxResults : currentResults[i].Risk = 50
    /\ currentResults[maxResults + 1].Risk = 90

\* C7: offered more than maxResults results, the trim lets a later result
\* take a place of the buffer only when its risk is strictly greater than
\* the buffer's smallest risk, the place it takes is the lowest index
\* holding that smallest risk, and a result that is not greater is dropped.
\* Ten results of risk 0.5 and then one of 0.9 give the 0.9 result followed
\* by the 2nd to 10th of the others.
C7_StrictReplaceFirstMin ==
    /\ \A i \in maxResults..(Len(currentResults) - 1) :
          LET b == trimDownResults(SubSeq(currentResults, 1, i))
              c == currentResults[i + 1]
              b2 == trimDownResults(SubSeq(currentResults, 1, i + 1))
          IN  IF c.Risk > MinRiskOf(b)
              THEN b2 = [b EXCEPT ![FirstMinOf(b)] = c]
              ELSE b2 = b
    /\ TenHalvesThenNine =>
          trimDownResults(currentResults) =
              <<currentResults[maxResults + 1]>>
                  \o SubSeq(currentResults, 2, maxResults)

C7_Witness == TenHalvesThenNine

\* Both runs of the program are over.
BothRunsDone == pc = "done" /\ prev /= <<>>

\* C8 as stated: a second run over the unchanged tree gives every file the
\* risk the first run gave it, so the same results.
C8_Idempotent ==
    BothRunsDone => finalResult.Results = prev[1].Results

\* The modification time is strictly after the clock's reading minus 168
\* hours.
RecentAt(n, clock) == tree[n].modTime > clock - 168

\* Each file was as recent at the clock reading of its scoring in the
\* second run as it was at that of the first.
SameRecency ==
    /\ Len(visited) = Len(prev[1].visited)
    /\ \A i \in DOMAIN visited :
          /\ visited[i].node = prev[1].visited[i].node
          /\ RecentAt(visited[i].node, visited[i].at)
                = RecentAt(visited[i].node, prev[1].visited[i].at)

\* C8 amended: the two runs give the same results whenever no file's
\* modification time is on different sides of the 168-hour cutoff at the
\* two clock readings it was scored at.
C8_IdempotentSameRecency ==
    BothRunsDone /\ SameRecency => finalResult.Results = prev[1].Results

\* The clock advanced between the scoring of a file in the first run and
\* in the second, and both runs gave the same, non-empty, results.
C8_Witness ==
    /\ BothRunsDone
    /\ SameRecency
    /\ finalResult.Results /= <<>>
    /\ finalResult.Results = prev[1].Results
    /\ visited[2].at > prev[1].visited[2].at

\* The four deltas as the rules are written down, and their sum.
SizeDelta(n) == IF tree[n].size > 1000000 THEN 25 ELSE 0

ExtDelta(n) ==
    CASE tree[n].ext \in {".zip", ".tar"} -> 15
      [] tree[n].ext \in {".png", ".jpg", ".jpeg"} -> -20
      [] tree[n].ext \in {".csv", ".json"} -> 75
      [] OTHER -> 0

RecencyDelta(n, clock) == IF RecentAt(n, clock) THEN 20 ELSE 0

LengthDelta(n) ==
    CASE PathLen(n) < 5 -> 25
      [] PathLen(n) > 15 -> -10
      [] PathLen(n) >= 5 /\ PathLen(n) <= 15 -> 50

RawRisk(n, clock) ==
    SizeDelta(n) + ExtDelta(n) + RecencyDelta(n, clock) + LengthDelta(n)

Clamped(x) == IF x > 100 THEN 100 ELSE IF x < 0 THEN 0 ELSE x

\* A .csv of 2,000,000 bytes modified an hour before it is scored, under a
\* path of length 20.
BigCsv(n, clock) ==
    /\ tree[n].size = 2000000
    /\ tree[n].ext = ".csv"
    /\ tree[n].modTime = clock - 1
    /\ PathLen(n) = 20

C10_WholeTreeOrFailure ==
    Completed => \A n \in Nodes : Visited(n)

\* The argument list has no flag f with a token after it: f is absent, or
\* is the last token only.
Lacks(a, f) == ~ \E i \in 1..(Len(a) - 1) : a[i] = f

\* C11: when the argument list lacks a usable --dir or a usable --out the
\* program stops before the walk starts and before the output file is
\* opened: walkFn is never called and nothing is written.
C11_MissingFlagStopsEarly ==
    Lacks(osArgs, dirArg) \/ Lacks(osArgs, outArg) =>
        /\ pc \in {"start", "exit"}
        /\ todo = <<>>
        /\ visited = <<>>
        /\ outFile = <<>>

\* The program has stopped on an argument list that has a usable --dir and
\* ends with a --out that has no value.
C11_Witness ==
    /\ pc = "exit"
    /\ ~Lacks(osArgs, dirArg)
    /\ Lacks(osArgs, outArg)
    /\ osArgs[Len(osArgs)] = outArg

\* The i-th entry of the walk is a file, or is a directory.
FileEntry(i) ==
    ~tree[visited[i].node].isDir /\ ~tree[visited[i].node].lstatErr

DirEntry(i) ==
    tree[visited[i].node].isDir /\ ~tree[visited[i].node].lstatErr

\* C12: the files of one directory come one after the other in the walk,
\* with no directory entry between two of them, so the pending list only
\* ever holds files of a single directory.
C12_FilesOfADirectoryContiguous ==
    /\ \A i, k \in DOMAIN visited :
          (/\ i < k
           /\ FileEntry(i)
           /\ FileEntry(k)
           /\ tree[visited[i].node].parent = tree[visited[k].node].parent)
              => \A j \in (i + 1)..(k - 1) : ~DirEntry(j)
    /\ \A r1, r2 \in Range(currentResults) : DirOf(r1.Path) = DirOf(r2.Path)

\* The save after the walk has run, with the list it was given still in
\* currentResults.
Saved == pc = "open"

\* The results of a sequence that are not in another.
NotReturned(input, output) == Range(input) \ Range(output)

\* C13: given more than maxResults results, trimDownResults returns exactly
\* maxResults of them, each one a result of the input, no two of the same
\* file (every result of the input has a path of its own, so they come from
\* different places of it) and none a zero-valued FileResult, and each with a risk at least that of
\* every result it leaves out; given maxResults results or fewer it returns
\* them unchanged.
C13_TrimKeepsTheTopTen ==
    Saved =>
        LET input == currentResults
            output == finalResult.Results
        IN  IF Len(input) > maxResults
            THEN /\ Len(output) = maxResults
                 /\ \A i \in 1..maxResults :
                       \E k \in DOMAIN input : output[i] = input[k]
                 /\ \A i, j \in 1..maxResults :
                       i /= j => output[i].Path /= output[j].Path
                 /\ ZeroFileResult \notin Range(output)
                 /\ \A r \in Range(output) :
                       \A d \in NotReturned(input, output) : r.Risk >= d.Risk
            ELSE output = input

\* A list of more than maxResults results whose first and tenth have risk 1
\* and whose last has less.
C13_Witness ==
    /\ Saved
    /\ Len(currentResults) > maxResults
    /\ currentResults[1].Risk = maxRisk
    /\ currentResults[maxResults].Risk = maxRisk
    /\ currentResults[Len(currentResults)].Risk < maxRisk
    /\ Len(finalResult.Results) = maxResults

\* The streaming selector: a buffer of at most maxResults results.  An offer
\* appends while the buffer is not full; on a full buffer it puts the
\* candidate in the place of the first result of smallest risk when the
\* candidate's risk is strictly greater, and drops the candidate otherwise.
Offer(buffer, candidate) ==
    IF Len(buffer) < maxResults THEN Append(buffer, candidate)
    ELSE IF candidate.Risk > MinRiskOf(buffer)
         THEN [buffer EXCEPT ![FirstMinOf(buffer)] = candidate]
         ELSE buffer

\* The buffer after the candidates from the i-th on have been offered.
RECURSIVE OfferFrom(_, _, _)
OfferFrom(buffer, candidates, i) ==
    IF i > Len(candidates) THEN buffer
    ELSE OfferFrom(Offer(buffer, candidates[i]), candidates, i + 1)

\* What a drain returns after the candidates have been offered in order.
Streamed(candidates) == OfferFrom(<<>>, candidates, 1)

\* C14: adding every result of a group to the pending list and trimming the
\* list once at the save gives the same sequence, result for result, as
\* offering them one by one to the streaming selector of maxResults places
\* and draining it.
C14_BatchEqualsStreaming ==
    Saved => finalResult.Results = Streamed(currentResults)

\* A list of more than maxResults results of which the last has been put
\* in a place other than the first.
C14_Witness ==
    /\ Saved
    /\ Len(currentResults) > maxResults
    /\ currentResults[Len(currentResults)] \in Range(finalResult.Results)
    /\ finalResult.Results[1] = currentResults[1]

\* The step that handles the next entry of the walk, Lstat having worked
\* on it.
EntryStep ==
    /\ pc = "walk"
    /\ todo /= <<>>
    /\ visited' /= visited
    /\ ~tree[Head(todo)].lstatErr

\* s is t with at most one element appended.
AtMostOneAppended(s, t) ==
    /\ Len(s) \in {Len(t), Len(t) + 1}
    /\ SubSeq(s, 1, Len(t)) = t

C15_Step ==
    EntryStep =>
        IF tree[Head(todo)].isDir
        THEN /\ finalResult'.Results =
                    finalResult.Results \o trimDownResults(currentResults)
             /\ currentResults' = <<>>
        ELSE /\ finalResult' = finalResult
             /\ AtMostOneAppended(currentResults', currentResults)

\* C15: handling a directory entry, the root included, appends exactly the
\* trim of the pending list to the final results and leaves the pending
\* list empty; handling a file entry leaves the final results as they are
\* and appends at most one result to the pending list.
C15_DrainAtDirectoryOnly == [][C15_Step]_vars

\* A directory entry has just flushed more than maxResults pending results,
\* after file entries that added results and one that added none.
C15_Witness ==
    /\ pc = "walk"
    /\ Len(visited) > maxResults + 2
    /\ DirEntry(Len(visited))
    /\ \A i \in 2..(Len(visited) - 1) : FileEntry(i)
    /\ \E i \in 2..(Len(visited) - 1) : tree[visited[i].node].size <= 1000
    /\ Len(finalResult.Results) = maxResults
    /\ currentResults = <<>>

\* The place in the walk of the entry a result was made for.
VisitPos(r) ==
    CHOOSE k \in DOMAIN visited : Abs(PathOf(visited[k].node)) = r.Path

\* The save that flushed a result of the final results: the first directory
\* entry of the walk after the result's own entry, or the save after the
\* walk when there is none.
DrainOf(r) ==
    LET later == {k \in DOMAIN visited : k > VisitPos(r) /\ DirEntry(k)}
    IN  IF later = {} THEN Len(visited) + 1
        ELSE CHOOSE k \in later : \A m \in later : k <= m

\* The final results are in the order of the saves that flushed them: from
\* one result to the next the save is the same or a later one.
InFlushOrder ==
    \A i \in 1..(Len(finalResult.Results) - 1) :
        DrainOf(finalResult.Results[i]) <= DrainOf(finalResult.Results[i + 1])

\* s begins with t.
BeginsWith(s, t) == Len(t) <= Len(s) /\ SubSeq(s, 1, Len(t)) = t

C16_Step ==
    /\ BeginsWith(finalResult'.Results, finalResult.Results)
    /\ InFlushOrder'

\* C16: the final results keep the order of the saves: a result flushed by
\* an earlier save stands before every result flushed by a later one, also
\* when the later one has the higher risk, and no step removes or moves a
\* result that is already among the final results.
C16_FlushOrderKept == [][C16_Step]_vars

\* A result of risk 0.3 flushed at a directory entry stands before a result
\* of risk 0.9 flushed by the save after the walk.
C16_Witness ==
    /\ pc = "open"
    /\ \E i, j \in DOMAIN finalResult.Results :
          /\ i < j
          /\ finalResult.Results[i].Risk < finalResult.Results[j].Risk
          /\ DrainOf(finalResult.Results[i]) < DrainOf(finalResult.Results[j])
          /\ DrainOf(finalResult.Results[j]) = Len(visited) + 1

\* The arguments have been read.
ArgsRead == pc /= "start"

\* The reading of an argument list in which a token taken as the value of a
\* flag is passed over: from index i on, result being the map so far.
RECURSIVE SkippingFrom(_, _, _)
SkippingFrom(a, i, result) ==
    IF i > Len(a) THEN result
    ELSE IF a[i] \in {dirArg, outArg} /\ i + 1 <= Len(a)
         THEN SkippingFrom(a, i + 2, (a[i] :> a[i + 1]) @@ result)
         ELSE SkippingFrom(a, i + 1, result)

\* C17: the two flags are read in either order: for all tokens d and o the
\* lists [--dir, d, --out, o] and [--out, o, --dir, d] both give the map
\* {--dir: d, --out: o}; and a token taken as the value of a flag is never
\* read as a flag itself, so that the map is the one of the reading that
\* passes over every value it takes.
C17_ArgsOrderIndependent ==
    ArgsRead =>
        /\ \A d, o \in ArgTokens :
              osArgs \in {<<dirArg, d, outArg, o>>, <<outArg, o, dirArg, d>>}
                  => args = (dirArg :> d) @@ (outArg :> o)
        /\ args = SkippingFrom(osArgs, 1, <<>>)

\* C18: no file is reported twice: every entry being handed to the callback
\* once, no path stands at two places of the final results.
C18_NoPathTwice ==
    \A i, j \in DOMAIN finalResult.Results :
        i /= j => finalResult.Results[i].Path /= finalResult.Results[j].Path

\* The walk is over and the final results hold more than maxResults
\* results, flushed by two different saves.
C18_Witness ==
    /\ pc = "open"
    /\ Len(finalResult.Results) > maxResults
    /\ DrainOf(finalResult.Results[1])
          < DrainOf(finalResult.Results[Len(finalResult.Results)])
    /\ \A i, k \in DOMAIN visited : i /= k => visited[i].node /= visited[k].node

\* No entry of the tree reports an error.
NoEntryError == \A n \in Nodes : ~tree[n].lstatErr /\ ~tree[n].readErr

\* The save that takes what the k-th entry of the walk adds: the first
\* directory entry after it, or the save after the walk.
SaveAfter(k) ==
    LET later == {m \in DOMAIN visited : m > k /\ DirEntry(m)}
    IN  IF later = {} THEN Len(visited) + 1
        ELSE CHOOSE m \in later : \A x \in later : m <= x

\* No save takes more than maxResults qualifying files.
NothingToTrim ==
    \A d \in 1..(Len(visited) + 1) :
        Cardinality({k \in DOMAIN visited :
                        /\ Qualifies(visited[k].node)
                        /\ SaveAfter(k) = d}) <= maxResults

\* The paths of the qualifying files among the entries of the walk from the
\* i-th on, in the order of the walk.
RECURSIVE QualifyingFrom(_)
QualifyingFrom(i) ==
    IF i > Len(visited) THEN <<>>
    ELSE (IF Qualifies(visited[i].node)
          THEN <<Abs(PathOf(visited[i].node))>> ELSE <<>>)
         \o QualifyingFrom(i + 1)

\* C19: when no group of file entries between two directory entries, or
\* after the last, has more than maxResults files over the size filter and
\* no entry reports an error, the final results after the walk are exactly
\* the qualifying files of the tree, each once, in the order the walk
\* handed them over.
C19_NothingLostWithoutTrim ==
    (pc \in {"open", "done"} /\ NoEntryError /\ NothingToTrim) =>
        /\ [i \in DOMAIN finalResult.Results |-> finalResult.Results[i].Path]
              = QualifyingFrom(1)
        /\ \A n \in Nodes : Qualifies(n) =>
              Cardinality({i \in DOMAIN finalResult.Results :
                             finalResult.Results[i].Path = Abs(PathOf(n))}) = 1
        /\ \A r \in Range(finalResult.Results) : Qualifies(NodeOf(r))

\* A finished walk without errors whose two groups, one of them of
\* maxResults qualifying files, needed no trim, over a tree that also
\* holds a file under the size filter.
C19_Witness ==
    /\ pc = "open"
    /\ NoEntryError
    /\ NothingToTrim
    /\ Len(finalResult.Results) > maxResults
    /\ \E n \in Nodes : ~tree[n].isDir /\ ~Qualifies(n)

====
